---- MODULE Spec2Model ----
(***************************************************************************)
(* lib/web3/eth.js: the web3.eth method and property tables and the five   *)
(* call-selector functions that pick the "by hash" or the "by number" RPC  *)
(* method from the first argument of a call.                               *)
(***************************************************************************)
EXTENDS Integers, Sequences, FiniteSets, TLC

(***************************************************************************)
(* Bounds of the model.                                                    *)
(***************************************************************************)
MaxStrLen == 3
MaxArgs == 2
NumCallers == 2

VARIABLES methods, properties, cs

(***************************************************************************)
(* JavaScript values.  A value is a record of its typeof-kind and its      *)
(* text: the characters of a string, the digits of a number, the empty     *)
(* text for the others.                                                    *)
(***************************************************************************)
Chars == {"0", "x", "X", " ", "a"}

RECURSIVE StringsOfLen(_)
StringsOfLen(n) ==
    IF n = 0 THEN {<< >>}
    ELSE {Append(s, ch) : s \in StringsOfLen(n - 1), ch \in Chars}

Strings == UNION {StringsOfLen(n) : n \in 0..MaxStrLen}

Str(s) == [type |-> "string", repr |-> s]
Undefined == [type |-> "undefined", repr |-> << >>]
Null == [type |-> "null", repr |-> << >>]
Num1234 == [type |-> "number", repr |-> <<"1", "2", "3", "4">>]
BoolTrue == [type |-> "boolean", repr |-> <<"t">>]
Obj == [type |-> "object", repr |-> << >>]

NonStrings == {Undefined, Null, Num1234, BoolTrue, Obj}
Values == {Str(s) : s \in Strings} \cup NonStrings

\* the values the arguments after the first are drawn from
TailValues == {Num1234, Str(<<"0", "x">>)}

RECURSIVE TailsOfLen(_)
TailsOfLen(n) ==
    IF n = 0 THEN {<< >>}
    ELSE {Append(t, v) : t \in TailsOfLen(n - 1), v \in TailValues}

Tails == UNION {TailsOfLen(n) : n \in 0..(MaxArgs - 1)}

\* the argument lists of a call: empty, or any first value and a tail
ArgLists == {<< >>} \cup {<<v>> \o t : v \in Values, t \in Tails}

(***************************************************************************)
(* args[i] of a JavaScript array: undefined beyond the end.                *)
(***************************************************************************)
ArgAt(args, i) == IF (i + 1) \in DOMAIN args THEN args[i + 1] ELSE Undefined

\* the argument lists whose first element is the first element of args
SameFirst(args) ==
    {a \in ({<< >>} \cup {<<ArgAt(args, 0)>> \o t : t \in Tails}) :
        ArgAt(a, 0) = ArgAt(args, 0)}

(***************************************************************************)
(* String.prototype.indexOf: the first 0-based position where pat occurs   *)
(* in s, or -1.                                                            *)
(***************************************************************************)
indexOf(s, pat) ==
    LET hits == {i \in 0..(Len(s) - Len(pat)) :
                    SubSeq(s, i + 1, i + Len(pat)) = pat}
    IN  IF hits = {} THEN -1
        ELSE CHOOSE i \in hits : \A j \in hits : i <= j

\* a value on which the member call .indexOf(...) does not throw
hasIndexOf(v) == v.type = "string"

\* utils.isString
isString(v) == v.type = "string"

Prefix0x == <<"0", "x">>

(***************************************************************************)
(* The outcome of a selector call: what it returns or throws, and the      *)
(* argument array as the call leaves it (the array is passed by reference).*)
(***************************************************************************)
Return(sel, args) == [kind |-> "return", value |-> sel, args |-> args]
Throw(err, args) == [kind |-> "throw", value |-> err, args |-> args]

\* blockCall testing that '0x' occurs anywhere in args[0]
blockCallContains(args) ==
    LET a == ArgAt(args, 0) IN
    IF ~isString(a) THEN Return("eth_getBlockByNumber", args)
    ELSE IF ~hasIndexOf(a) THEN Throw("TypeError", args)
    ELSE IF indexOf(a.repr, Prefix0x) >= 0 THEN Return("eth_getBlockByHash", args)
    ELSE Return("eth_getBlockByNumber", args)

\* blockCall testing the first argument of the call caller 1 made last
blockCallShared(args) ==
    LET a == ArgAt(cs[1].args, 0) IN
    IF ~isString(a) THEN Return("eth_getBlockByNumber", args)
    ELSE IF ~hasIndexOf(a) THEN Throw("TypeError", args)
    ELSE IF indexOf(a.repr, Prefix0x) = 0 THEN Return("eth_getBlockByHash", args)
    ELSE Return("eth_getBlockByNumber", args)

blockCall(args) ==
    LET a == ArgAt(args, 0) IN
    IF ~isString(a) THEN Return("eth_getBlockByNumber", args)
    ELSE IF ~hasIndexOf(a) THEN Throw("TypeError", args)
    ELSE IF indexOf(a.repr, Prefix0x) = 0 THEN Return("eth_getBlockByHash", args)
    ELSE Return("eth_getBlockByNumber", args)

\* transactionFromBlockCall taking args[0] off the array with args.shift()
transactionFromBlockCallShift(args) ==
    LET a == ArgAt(args, 0)
        rest == IF args = << >> THEN << >> ELSE Tail(args) IN
    IF ~isString(a) THEN Return("eth_getTransactionByBlockNumberAndIndex", rest)
    ELSE IF ~hasIndexOf(a) THEN Throw("TypeError", rest)
    ELSE IF indexOf(a.repr, Prefix0x) = 0
         THEN Return("eth_getTransactionByBlockHashAndIndex", rest)
    ELSE Return("eth_getTransactionByBlockNumberAndIndex", rest)

transactionFromBlockCall(args) ==
    LET a == ArgAt(args, 0) IN
    IF ~isString(a) THEN Return("eth_getTransactionByBlockNumberAndIndex", args)
    ELSE IF ~hasIndexOf(a) THEN Throw("TypeError", args)
    ELSE IF indexOf(a.repr, Prefix0x) = 0
         THEN Return("eth_getTransactionByBlockHashAndIndex", args)
    ELSE Return("eth_getTransactionByBlockNumberAndIndex", args)

\* uncleCall testing the last argument instead of the first
uncleCallLastArg(args) ==
    LET a == ArgAt(args, Len(args) - 1) IN
    IF ~isString(a) THEN Return("eth_getUncleByBlockNumberAndIndex", args)
    ELSE IF ~hasIndexOf(a) THEN Throw("TypeError", args)
    ELSE IF indexOf(a.repr, Prefix0x) = 0
         THEN Return("eth_getUncleByBlockHashAndIndex", args)
    ELSE Return("eth_getUncleByBlockNumberAndIndex", args)

uncleCall(args) ==
    LET a == ArgAt(args, 0) IN
    IF ~isString(a) THEN Return("eth_getUncleByBlockNumberAndIndex", args)
    ELSE IF ~hasIndexOf(a) THEN Throw("TypeError", args)
    ELSE IF indexOf(a.repr, Prefix0x) = 0
         THEN Return("eth_getUncleByBlockHashAndIndex", args)
    ELSE Return("eth_getUncleByBlockNumberAndIndex", args)

\* getBlockTransactionCountCall without the utils.isString test
getBlockTransactionCountCallUnguarded(args) ==
    LET a == ArgAt(args, 0) IN
    IF ~hasIndexOf(a) THEN Throw("TypeError", args)
    ELSE IF indexOf(a.repr, Prefix0x) = 0
         THEN Return("eth_getBlockTransactionCountByHash", args)
    ELSE Return("eth_getBlockTransactionCountByNumber", args)

getBlockTransactionCountCall(args) ==
    LET a == ArgAt(args, 0) IN
    IF ~isString(a) THEN Return("eth_getBlockTransactionCountByNumber", args)
    ELSE IF ~hasIndexOf(a) THEN Throw("TypeError", args)
    ELSE IF indexOf(a.repr, Prefix0x) = 0
         THEN Return("eth_getBlockTransactionCountByHash", args)
    ELSE Return("eth_getBlockTransactionCountByNumber", args)

uncleCountCall(args) ==
    LET a == ArgAt(args, 0) IN
    IF ~isString(a) THEN Return("eth_getUncleCountByBlockNumber", args)
    ELSE IF ~hasIndexOf(a) THEN Throw("TypeError", args)
    ELSE IF indexOf(a.repr, Prefix0x) = 0
         THEN Return("eth_getUncleCountByBlockHash", args)
    ELSE Return("eth_getUncleCountByBlockNumber", args)

SelectorNames == {"blockCall", "transactionFromBlockCall", "uncleCall",
                  "getBlockTransactionCountCall", "uncleCountCall"}

\* the call of the function value named fn
Apply(fn, args) ==
    CASE fn = "blockCall" -> blockCall(args)
      [] fn = "transactionFromBlockCall" -> transactionFromBlockCall(args)
      [] fn = "uncleCall" -> uncleCall(args)
      [] fn = "getBlockTransactionCountCall" -> getBlockTransactionCountCall(args)
      [] fn = "uncleCountCall" -> uncleCountCall(args)

(***************************************************************************)
(* Field values of a descriptor.  call is a fixed selector string or one   *)
(* of the selector functions; a formatter is absent, one function, or an   *)
(* array of functions.  Functions are held by name.                        *)
(***************************************************************************)
Fixed(sel) == [tag |-> "string", ref |-> sel]
Func(fn) == [tag |-> "function", ref |-> fn]

NoFormatter == [tag |-> "undefined", ref |-> "", items |-> << >>]
Formatter(fn) == [tag |-> "function", ref |-> fn, items |-> << >>]
FormatterArray(fns) == [tag |-> "array", ref |-> "", items |-> fns]

\* new Method(options): the descriptor that holds the options' fields
Method(options) ==
    [name |-> options.name,
     call |-> options.call,
     paramCount |-> options.params,
     inputFormatter |-> IF "inputFormatter" \in DOMAIN options
                        THEN options.inputFormatter ELSE NoFormatter,
     outputFormatter |-> IF "outputFormatter" \in DOMAIN options
                         THEN options.outputFormatter ELSE NoFormatter]

getBalance ==
    Method([name |-> "getBalance",
            call |-> Fixed("eth_getBalance"),
            params |-> 2,
            outputFormatter |-> Formatter("formatters.inputNumberFormatter")])

getStorageAt ==
    Method([name |-> "getStorageAt",
            call |-> Fixed("eth_getStorageAt"),
            params |-> 3])

getCode ==
    Method([name |-> "getCode",
            call |-> Fixed("eth_getCode"),
            params |-> 2])

getBlock ==
    Method([name |-> "getBlock",
            call |-> Func("blockCall"),
            params |-> 1,
            outputFormatter |-> Formatter("formatters.outputBlockFormatter"),
            inputFormatter |-> Formatter("formatters.inputBlockFormatter")])

getUncle ==
    Method([name |-> "getUncle",
            call |-> Func("uncleCall"),
            params |-> 1,
            outputFormatter |-> Formatter("formatters.outputBlockFormatter"),
            inputFormatter |-> Formatter("formatters.inputUncleFormatter")])

getCompilers ==
    Method([name |-> "getCompilers",
            call |-> Fixed("eth_getCompilers"),
            params |-> 0])

getBlockTransactounCount ==
    Method([name |-> "getBlockTransactionCount",
            call |-> Func("getBlockTransactionCountCall"),
            params |-> 1,
            outputFormatter |-> Formatter("utils.toDecimal"),
            inputFormatter |-> Formatter("utils.toHex")])

\* getBlockUncleCount with the selector of getUncle
getBlockUncleCountUncleCall ==
    Method([name |-> "getBlockUncleCount",
            call |-> Func("uncleCall"),
            params |-> 1,
            outputFormatter |-> Formatter("utils.toDecimal"),
            inputFormatter |-> Formatter("utils.toHex")])

getBlockUncleCount ==
    Method([name |-> "getBlockUncleCount",
            call |-> Func("uncleCountCall"),
            params |-> 1,
            outputFormatter |-> Formatter("utils.toDecimal"),
            inputFormatter |-> Formatter("utils.toHex")])

getTransaction ==
    Method([name |-> "getTransaction",
            call |-> Fixed("eth_getTransactionByHash"),
            params |-> 1,
            outputFormatter |-> Formatter("formatters.outputTransactionFormatter")])

\* getTransactionFromBlock with one formatter for each of its two parameters
getTransactionFromBlockArray ==
    Method([name |-> "getTransactionFromBlock",
            call |-> Func("transactionFromBlockCall"),
            params |-> 2,
            outputFormatter |-> Formatter("formatters.outputTransactionFormatter"),
            inputFormatter |-> FormatterArray(<<"utils.toHex", "utils.toHex">>)])

getTransactionFromBlock ==
    Method([name |-> "getTransactionFromBlock",
            call |-> Func("transactionFromBlockCall"),
            params |-> 2,
            outputFormatter |-> Formatter("formatters.outputTransactionFormatter"),
            inputFormatter |-> Formatter("utils.toHex")])

getTransactionCount ==
    Method([name |-> "getTransactionCount",
            call |-> Fixed("eth_getTransactionCount"),
            params |-> 2,
            outputFormatter |-> Formatter("utils.toDecimal")])

sendTransaction ==
    Method([name |-> "sendTransaction",
            call |-> Fixed("eth_sendTransaction"),
            params |-> 1,
            inputFormatter |-> Formatter("formatters.inputTransactionFormatter")])

call ==
    Method([name |-> "call",
            call |-> Fixed("eth_call"),
            params |-> 2,
            inputFormatter |-> Formatter("formatters.inputCallFormatter")])

compileSolidity ==
    Method([name |-> "compile.solidity",
            call |-> Fixed("eth_compileSolidity"),
            params |-> 1])

compileLLL ==
    Method([name |-> "compile.lll",
            call |-> Fixed("eth_compileLLL"),
            params |-> 1,
            inputFormatter |-> Formatter("utils.toHex")])

\* compileSerpent keeping the name of compileLLL
compileSerpentAsLLL ==
    Method([name |-> "compile.lll",
            call |-> Fixed("eth_compileSerpent"),
            params |-> 1,
            inputFormatter |-> Formatter("utils.toHex")])

compileSerpent ==
    Method([name |-> "compile.serpent",
            call |-> Fixed("eth_compileSerpent"),
            params |-> 1,
            inputFormatter |-> Formatter("utils.toHex")])

flush ==
    Method([name |-> "flush",
            call |-> Fixed("eth_flush"),
            params |-> 0])

\* the array literal of var methods
methodsLiteral ==
    << getBalance,
       getStorageAt,
       getCode,
       getBlock,
       getUncle,
       getCompilers,
       getBlockTransactounCount,
       getBlockUncleCount,
       getTransaction,
       getTransactionFromBlock,
       getTransactionCount,
       call,
       sendTransaction,
       compileSolidity,
       compileLLL,
       compileSerpent,
       flush >>

\* properties where number names itself as its replacement
propertiesLiteralNumberSelf ==
    << [name |-> "coinbase", getter |-> "eth_coinbase"],
       [name |-> "mining", getter |-> "eth_mining"],
       [name |-> "gasPrice", getter |-> "eth_gasPrice",
        outputFormatter |-> Formatter("formatters.inputNumberFormatter")],
       [name |-> "accounts", getter |-> "eth_accounts"],
       [name |-> "blockNumber", getter |-> "eth_blockNumber",
        outputFormatter |-> Formatter("utils.toDecimal")],
       [name |-> "listening", getter |-> "net_listening",
        setter |-> "eth_setListening", deprecated |-> "net.listening"],
       [name |-> "peerCount", getter |-> "net_peerCount",
        deprecated |-> "net.peerCount"],
       [name |-> "number", getter |-> "eth_number",
        deprecated |-> "number"] >>

\* properties where peerCount declares a setter too
propertiesLiteralPeerCountSetter ==
    << [name |-> "coinbase", getter |-> "eth_coinbase"],
       [name |-> "mining", getter |-> "eth_mining"],
       [name |-> "gasPrice", getter |-> "eth_gasPrice",
        outputFormatter |-> Formatter("formatters.inputNumberFormatter")],
       [name |-> "accounts", getter |-> "eth_accounts"],
       [name |-> "blockNumber", getter |-> "eth_blockNumber",
        outputFormatter |-> Formatter("utils.toDecimal")],
       [name |-> "listening", getter |-> "net_listening",
        setter |-> "eth_setListening", deprecated |-> "net.listening"],
       [name |-> "peerCount", getter |-> "net_peerCount",
        setter |-> "net_setPeerCount", deprecated |-> "net.peerCount"],
       [name |-> "number", getter |-> "eth_number",
        deprecated |-> "eth.blockNumber"] >>

\* the array literal of var properties
propertiesLiteral ==
    << [name |-> "coinbase", getter |-> "eth_coinbase"],
       [name |-> "mining", getter |-> "eth_mining"],
       [name |-> "gasPrice", getter |-> "eth_gasPrice",
        outputFormatter |-> Formatter("formatters.inputNumberFormatter")],
       [name |-> "accounts", getter |-> "eth_accounts"],
       [name |-> "blockNumber", getter |-> "eth_blockNumber",
        outputFormatter |-> Formatter("utils.toDecimal")],
       [name |-> "listening", getter |-> "net_listening",
        setter |-> "eth_setListening", deprecated |-> "net.listening"],
       [name |-> "peerCount", getter |-> "net_peerCount",
        deprecated |-> "net.peerCount"],
       [name |-> "number", getter |-> "eth_number",
        deprecated |-> "eth.blockNumber"] >>

(***************************************************************************)
(* State.  methods and properties are the two exported arrays.  cs[c] is   *)
(* what caller c is doing: its position pc, the name it asked for (fn),    *)
(* the indices a lookup by name found, the argument list it passed, the    *)
(* outcome of the call, and the argument list and outcome of a second call *)
(* of the same selector.                                                   *)
(***************************************************************************)
vars == <<methods, properties, cs>>

Callers == 1..NumCallers

NoOutcome == [kind |-> "none", value |-> "", args |-> << >>]

Idle ==
    [pc |-> "idle", fn |-> "", found |-> {}, args |-> << >>, out |-> NoOutcome,
     args2 |-> << >>, out2 |-> NoOutcome]

MethodNames == {methodsLiteral[i].name : i \in DOMAIN methodsLiteral}
PropertyNames == {propertiesLiteral[i].name : i \in DOMAIN propertiesLiteral}

\* the names a lookup is asked for: every name of either table
LookupNames == MethodNames \cup PropertyNames

\* the inputs of the callers that run concurrently
ConcNames == {"getBlock", "getUncle", "getBlockTransactionCount",
              "getBlockUncleCount", "getTransactionFromBlock", "getBalance",
              "listening", "coinbase"}
ConcArgLists == {<< >>, <<Str(Prefix0x)>>, <<Num1234>>}

\* module load (module.exports = {methods: methods, properties: properties})
Init ==
    /\ methods = methodsLiteral
    /\ properties = propertiesLiteral
    /\ cs = [c \in Callers |-> Idle]

\* the indices of the descriptors of table whose name is name
ByName(table, name) == {i \in DOMAIN table : table[i].name = name}

\* the first of a non-empty set of indices
First(idx) == CHOOSE i \in idx : \A j \in idx : i <= j

(***************************************************************************)
(* A caller calls one of the five selector functions with an argument list *)
(* of lists.                                                               *)
(***************************************************************************)
InvokeSelector(c, lists) ==
    /\ cs[c].pc = "idle"
    /\ \E fn \in SelectorNames, args \in lists :
          cs' = [cs EXCEPT ![c] = [Idle EXCEPT !.pc = "returned", !.fn = fn,
                                               !.args = args,
                                               !.out = Apply(fn, args)]]
    /\ UNCHANGED <<methods, properties>>

(***************************************************************************)
(* The caller calls the same selector again, with an argument list that    *)
(* has the same first element.                                             *)
(***************************************************************************)
Reinvoke(c) ==
    /\ cs[c].pc = "returned"
    /\ \E args2 \in SameFirst(cs[c].args) :
          cs' = [cs EXCEPT ![c].pc = "reinvoked", ![c].args2 = args2,
                           ![c].out2 = Apply(cs[c].fn, args2)]
    /\ UNCHANGED <<methods, properties>>

(***************************************************************************)
(* A consumer looks a method descriptor up by one of names.                *)
(***************************************************************************)
LookupMethod(c, names) ==
    /\ cs[c].pc = "idle"
    /\ \E name \in names :
          cs' = [cs EXCEPT ![c] = [Idle EXCEPT !.pc = "found", !.fn = name,
                                               !.found = ByName(methods, name)]]
    /\ UNCHANGED <<methods, properties>>

(***************************************************************************)
(* The dispatcher resolves the call of the descriptor it found: the fixed  *)
(* string, or the result of calling the selector function with the         *)
(* arguments.                                                              *)
(***************************************************************************)
ResolveCall(c, lists) ==
    /\ cs[c].pc = "found"
    /\ cs[c].found # {}
    /\ \E args \in lists :
          LET d == methods[First(cs[c].found)] IN
          cs' = [cs EXCEPT ![c].pc = "resolved", ![c].args = args,
                           ![c].out = IF d.call.tag = "function"
                                      THEN Apply(d.call.ref, args)
                                      ELSE Return(d.call.ref, args)]
    /\ UNCHANGED <<methods, properties>>

(***************************************************************************)
(* A consumer looks a property descriptor up by one of names.              *)
(***************************************************************************)
LookupProperty(c, names) ==
    /\ cs[c].pc = "idle"
    /\ \E name \in names :
          cs' = [cs EXCEPT ![c] = [Idle EXCEPT !.pc = "property", !.fn = name,
                                               !.found = ByName(properties, name)]]
    /\ UNCHANGED <<methods, properties>>

(***************************************************************************)
(* The property accessor writes the property it found: the setter call,    *)
(* or a rejection when the descriptor declares no setter.                  *)
(***************************************************************************)
WriteProperty(c) ==
    /\ cs[c].pc = "property"
    /\ cs[c].found # {}
    /\ LET p == properties[First(cs[c].found)] IN
       cs' = [cs EXCEPT ![c].pc = IF "setter" \in DOMAIN p
                                  THEN "written" ELSE "rejected",
                        ![c].out = IF "setter" \in DOMAIN p
                                   THEN Return(p.setter, << >>)
                                   ELSE NoOutcome]
    /\ UNCHANGED <<methods, properties>>

\* the caller is done with its result
Finish(c) ==
    /\ cs[c].pc # "idle"
    /\ cs' = [cs EXCEPT ![c] = Idle]
    /\ UNCHANGED <<methods, properties>>

\* one caller, every input
Next ==
    \/ InvokeSelector(1, ArgLists)
    \/ Reinvoke(1)
    \/ LookupMethod(1, LookupNames)
    \/ ResolveCall(1, ArgLists)
    \/ LookupProperty(1, LookupNames)
    \/ WriteProperty(1)
    \/ Finish(1)

Spec == Init /\ [][Next]_vars

\* any number of callers, interleaved
NextConc ==
    \E c \in Callers :
        \/ InvokeSelector(c, ConcArgLists)
        \/ LookupMethod(c, ConcNames)
        \/ ResolveCall(c, ConcArgLists)
        \/ LookupProperty(c, ConcNames)
        \/ Finish(c)

SpecConc == Init /\ [][NextConc]_vars

(***************************************************************************)
(* The tables of the specification, to compare the program with.           *)
(***************************************************************************)
HashSelector ==
    [blockCall |-> "eth_getBlockByHash",
     transactionFromBlockCall |-> "eth_getTransactionByBlockHashAndIndex",
     uncleCall |-> "eth_getUncleByBlockHashAndIndex",
     getBlockTransactionCountCall |-> "eth_getBlockTransactionCountByHash",
     uncleCountCall |-> "eth_getUncleCountByBlockHash"]

NumberSelector ==
    [blockCall |-> "eth_getBlockByNumber",
     transactionFromBlockCall |-> "eth_getTransactionByBlockNumberAndIndex",
     uncleCall |-> "eth_getUncleByBlockNumberAndIndex",
     getBlockTransactionCountCall |-> "eth_getBlockTransactionCountByNumber",
     uncleCountCall |-> "eth_getUncleCountByBlockNumber"]

\* v is a string whose first two characters are 0 and x
StartsWith0x(v) ==
    /\ v.type = "string"
    /\ Len(v.repr) >= 2
    /\ v.repr[1] = "0"
    /\ v.repr[2] = "x"

\* the selector the specification designates for selector function fn on args
Designated(fn, args) ==
    IF StartsWith0x(ArgAt(args, 0)) THEN HashSelector[fn] ELSE NumberSelector[fn]

ExpectedNames ==
    <<"getBalance", "getStorageAt", "getCode", "getBlock", "getUncle",
      "getCompilers", "getBlockTransactionCount", "getBlockUncleCount",
      "getTransaction", "getTransactionFromBlock", "getTransactionCount",
      "call", "sendTransaction", "compile.solidity", "compile.lll",
      "compile.serpent", "flush">>

ExpectedParams == <<2, 3, 2, 1, 1, 0, 1, 1, 1, 2, 2, 2, 1, 1, 1, 1, 0>>

ExpectedCalls ==
    <<Fixed("eth_getBalance"), Fixed("eth_getStorageAt"), Fixed("eth_getCode"),
      Func("blockCall"), Func("uncleCall"), Fixed("eth_getCompilers"),
      Func("getBlockTransactionCountCall"), Func("uncleCountCall"),
      Fixed("eth_getTransactionByHash"), Func("transactionFromBlockCall"),
      Fixed("eth_getTransactionCount"), Fixed("eth_call"),
      Fixed("eth_sendTransaction"), Fixed("eth_compileSolidity"),
      Fixed("eth_compileLLL"), Fixed("eth_compileSerpent"), Fixed("eth_flush")>>

ExpectedPropertyNames ==
    <<"coinbase", "mining", "gasPrice", "accounts", "blockNumber",
      "listening", "peerCount", "number">>

\* the selector a caller running alone resolves for method name on args
AloneSelector(name, args) ==
    LET i == CHOOSE k \in DOMAIN ExpectedNames : ExpectedNames[k] = name IN
    IF ExpectedCalls[i].tag = "function"
    THEN Designated(ExpectedCalls[i].ref, args)
    ELSE ExpectedCalls[i].ref

(***************************************************************************)
(* C1: each selector function returns its by-hash selector when args[0] is *)
(* a string starting with '0x', and its by-number selector for every other *)
(* args[0] (number, other string, undefined, object).                      *)
(***************************************************************************)
C1_SelectorByFirstArgument ==
    \A c \in Callers :
        cs[c].pc = "returned" =>
            /\ cs[c].out.kind = "return"
            /\ cs[c].out.value = Designated(cs[c].fn, cs[c].args)

\* uncleCall([' 0x']) has returned the by-number selector
C1_Witness ==
    /\ cs[1].pc = "returned"
    /\ cs[1].fn = "uncleCall"
    /\ cs[1].args = <<Str(<<" ", "0", "x">>)>>
    /\ cs[1].out.value = "eth_getUncleByBlockNumberAndIndex"

(***************************************************************************)
(* C2: the result of a selector depends on args[0] alone: two argument     *)
(* lists with the same first element, of any lengths and remaining         *)
(* elements, get the same selector.                                        *)
(***************************************************************************)
C2_DependsOnFirstArgumentOnly ==
    \A c \in Callers :
        cs[c].pc = "reinvoked" =>
            /\ cs[c].out2.kind = cs[c].out.kind
            /\ cs[c].out2.value = cs[c].out.value

\* the two calls had lists of different lengths and a hash as first element
C2_Witness ==
    /\ cs[1].pc = "reinvoked"
    /\ Len(cs[1].args) = 1
    /\ Len(cs[1].args2) = MaxArgs
    /\ StartsWith0x(ArgAt(cs[1].args, 0))
    /\ ~StartsWith0x(ArgAt(cs[1].args2, Len(cs[1].args2) - 1))
    /\ cs[1].out2.value = HashSelector[cs[1].fn]

(***************************************************************************)
(* C3: the selectors are total and never signal an error: every argument   *)
(* list gets a selector string, and the empty list and the lists whose     *)
(* first element is null, an object, a boolean, undefined or a string      *)
(* without the '0x' prefix get the by-number selector.                     *)
(***************************************************************************)
Malformed(args) ==
    \/ args = << >>
    \/ ArgAt(args, 0).type \in {"undefined", "null", "object", "boolean"}
    \/ ArgAt(args, 0).type = "string" /\ ~StartsWith0x(ArgAt(args, 0))

C3_SelectorsTotal ==
    \A c \in Callers :
        cs[c].pc \in {"returned", "reinvoked"} =>
            /\ cs[c].out.kind # "throw"
            /\ cs[c].out.value \in {HashSelector[cs[c].fn], NumberSelector[cs[c].fn]}
            /\ Malformed(cs[c].args) => cs[c].out.value = NumberSelector[cs[c].fn]

\* getBlockTransactionCountCall([]) has returned the by-number selector
C3_Witness ==
    /\ cs[1].pc = "returned"
    /\ cs[1].fn = "getBlockTransactionCountCall"
    /\ cs[1].args = << >>
    /\ cs[1].out = Return("eth_getBlockTransactionCountByNumber", << >>)

(***************************************************************************)
(* C4: the method sequence has exactly the 17 descriptors of the           *)
(* specification's table, in its order, each with the table's parameter    *)
(* count (a non-negative integer) and the table's call: the fixed selector *)
(* string, or the selector function of that same operation.                *)
(***************************************************************************)
C4_MethodTable ==
    /\ Len(methods) = 17
    /\ \A i \in DOMAIN methods :
          /\ methods[i].name = ExpectedNames[i]
          /\ methods[i].paramCount \in Nat
          /\ methods[i].paramCount = ExpectedParams[i]
          /\ methods[i].call = ExpectedCalls[i]

\* the dispatcher has resolved getBlockUncleCount through its own selector
C4_Witness ==
    /\ cs[1].pc = "resolved"
    /\ cs[1].fn = "getBlockUncleCount"
    /\ cs[1].found = {8}
    /\ cs[1].out.value = "eth_getUncleCountByBlockHash"

(***************************************************************************)
(* C5: names are unique within the method sequence and within the property *)
(* sequence, so a lookup by name finds at most one descriptor.             *)
(***************************************************************************)
C5_NamesUnique ==
    /\ \A i, j \in DOMAIN methods :
          methods[i].name = methods[j].name => i = j
    /\ \A i, j \in DOMAIN properties :
          properties[i].name = properties[j].name => i = j
    /\ \A c \in Callers :
          cs[c].pc \in {"found", "property"} => Cardinality(cs[c].found) <= 1

\* the lookup of compile.lll has found one descriptor
C5_Witness ==
    /\ cs[1].pc = "found"
    /\ cs[1].fn = "compile.lll"
    /\ Cardinality(cs[1].found) = 1

(***************************************************************************)
(* C6: exactly listening, peerCount and number are deprecated, with the    *)
(* replacements net.listening, net.peerCount and eth.blockNumber; every    *)
(* deprecated descriptor has a non-empty replacement that differs from its *)
(* name and declares a getter; coinbase, mining, gasPrice, accounts and    *)
(* blockNumber carry no deprecated field.                                  *)
(***************************************************************************)
DeprecatedAt == {i \in DOMAIN properties : "deprecated" \in DOMAIN properties[i]}

C6_DeprecatedProperties ==
    /\ {<<properties[i].name, properties[i].deprecated>> : i \in DeprecatedAt}
          = {<<"listening", "net.listening">>, <<"peerCount", "net.peerCount">>,
             <<"number", "eth.blockNumber">>}
    /\ Cardinality(DeprecatedAt) = 3
    /\ \A i \in DeprecatedAt :
          /\ properties[i].deprecated # ""
          /\ properties[i].deprecated # properties[i].name
          /\ "getter" \in DOMAIN properties[i]
          /\ properties[i].getter # ""
    /\ \A i \in DOMAIN properties :
          properties[i].name \in {"coinbase", "mining", "gasPrice", "accounts",
                                  "blockNumber"} => i \notin DeprecatedAt

\* the lookup of number has found a deprecated descriptor
C6_Witness ==
    /\ cs[1].pc = "property"
    /\ cs[1].fn = "number"
    /\ cs[1].found # {}
    /\ cs[1].found \subseteq DeprecatedAt

(***************************************************************************)
(* C7: the lookup of listening finds a descriptor with deprecated          *)
(* net.listening and setter eth_setListening; listening is the only        *)
(* property with a setter, so an accessor that rejects writes without a    *)
(* setter accepts a write to listening and rejects it for the other seven. *)
(***************************************************************************)
C7_ListeningOnlySetter ==
    /\ {properties[i].name : i \in {k \in DOMAIN properties :
                                       "setter" \in DOMAIN properties[k]}}
          = {"listening"}
    /\ \A c \in Callers :
          /\ (cs[c].pc = "property" /\ cs[c].fn = "listening") =>
                /\ cs[c].found # {}
                /\ \A i \in cs[c].found :
                      /\ "deprecated" \in DOMAIN properties[i]
                      /\ properties[i].deprecated = "net.listening"
                      /\ "setter" \in DOMAIN properties[i]
                      /\ properties[i].setter = "eth_setListening"
          /\ cs[c].pc = "written" =>
                /\ cs[c].fn = "listening"
                /\ cs[c].out.value = "eth_setListening"
          /\ cs[c].pc = "rejected" =>
                cs[c].fn \in {"coinbase", "mining", "gasPrice", "accounts",
                              "blockNumber", "peerCount", "number"}

\* a write to listening has been accepted
C7_Witness ==
    /\ cs[1].pc = "written"
    /\ cs[1].fn = "listening"
    /\ cs[1].out.value = "eth_setListening"

(***************************************************************************)
(* C8: after any sequence of selector calls and lookups the two sequences  *)
(* are as they were at module load, the argument list passed to a selector *)
(* is unchanged, and a second call with the same argument list returns the *)
(* same selector.                                                          *)
(***************************************************************************)
C8_ReadOnly ==
    /\ methods = methodsLiteral
    /\ properties = propertiesLiteral
    /\ \A c \in Callers :
          /\ cs[c].pc \in {"returned", "reinvoked", "resolved"} =>
                cs[c].out.args = cs[c].args
          /\ cs[c].pc = "reinvoked" =>
                /\ cs[c].out2.args = cs[c].args2
                /\ cs[c].args2 = cs[c].args => cs[c].out2 = cs[c].out

\* transactionFromBlockCall has been called twice with the same two arguments
C8_Witness ==
    /\ cs[1].pc = "reinvoked"
    /\ cs[1].fn = "transactionFromBlockCall"
    /\ Len(cs[1].args) = 2
    /\ cs[1].args2 = cs[1].args
    /\ cs[1].out2.args = cs[1].args

(***************************************************************************)
(* C9: under every interleaving of concurrent callers each caller gets the *)
(* result it would get alone (the selector of its own args[0], the         *)
(* descriptor of the name it asked for), and the tables stay as loaded.    *)
(***************************************************************************)
C9_ConcurrentReadsSafe ==
    /\ methods = methodsLiteral
    /\ properties = propertiesLiteral
    /\ \A c \in Callers :
          /\ cs[c].pc = "found" =>
                cs[c].found = {i \in DOMAIN ExpectedNames :
                                  ExpectedNames[i] = cs[c].fn}
          /\ cs[c].pc = "property" =>
                cs[c].found = {i \in DOMAIN ExpectedPropertyNames :
                                  ExpectedPropertyNames[i] = cs[c].fn}
          /\ cs[c].pc = "resolved" =>
                cs[c].out = Return(AloneSelector(cs[c].fn, cs[c].args), cs[c].args)
          /\ cs[c].pc = "returned" =>
                cs[c].out = Return(Designated(cs[c].fn, cs[c].args), cs[c].args)

\* two callers hold different selectors of getBlock at the same time
C9_Witness ==
    /\ cs[1].pc = "resolved"
    /\ cs[2].pc = "resolved"
    /\ cs[1].fn = "getBlock"
    /\ cs[2].fn = "getBlock"
    /\ cs[1].out.value = "eth_getBlockByHash"
    /\ cs[2].out.value = "eth_getBlockByNumber"

(***************************************************************************)
(* C10: an inputFormatter that is a sequence is no longer than the         *)
(* descriptor's paramCount; getTransactionFromBlock has paramCount 2 and a *)
(* single, non-sequence hex input formatter, so one formatter exists for   *)
(* its two arguments.                                                      *)
(***************************************************************************)
\* the number of formatter functions a descriptor declares for its arguments
FormatterCount(d) ==
    IF d.inputFormatter.tag = "array" THEN Len(d.inputFormatter.items)
    ELSE IF d.inputFormatter.tag = "function" THEN 1
    ELSE 0

C10_InputFormatterShape ==
    /\ \A i \in DOMAIN methods :
          methods[i].inputFormatter.tag = "array" =>
              Len(methods[i].inputFormatter.items) <= methods[i].paramCount
    /\ \A i \in DOMAIN methods :
          methods[i].name = "getTransactionFromBlock" =>
              /\ methods[i].paramCount = 2
              /\ methods[i].inputFormatter.tag = "function"
              /\ methods[i].inputFormatter.ref = "utils.toHex"
              /\ FormatterCount(methods[i]) = 1
              /\ FormatterCount(methods[i]) < methods[i].paramCount

\* the lookup of getTransactionFromBlock has found its descriptor
C10_Witness ==
    /\ cs[1].pc = "found"
    /\ cs[1].fn = "getTransactionFromBlock"
    /\ \E i \in cs[1].found :
          /\ methods[i].paramCount = 2
          /\ FormatterCount(methods[i]) = 1
====
